---- MODULE Spec2Model ----
(***************************************************************************)
(* A model of hack_chat_types: the identity registry (lib.rs, Users), the  *)
(* synthetic reconstruction of invites and emotes from Info text           *)
(* (server.rs, mod synthetic), and the JSON decoders of server commands    *)
(* (server.rs).                                                            *)
(*                                                                         *)
(* A Rust string is a sequence of characters.  Words that the code only    *)
(* ever compares as a whole ("alice", "invited", "general", ...) are       *)
(* written as one character of the alphabet; the characters the code looks *)
(* at one by one (' ', '?', '@', '#', hex digits) are themselves.          *)
(***************************************************************************)
EXTENDS Integers, Sequences, FiniteSets, TLC

VARIABLES id, ourself, users, arg, ret, minted

vars == <<id, ourself, users, arg, ret, minted>>

\* ---------------------------------------------------------------- bounds
MaxUsers == 2
MaxGenerated == 2
MaxTokens == 5
MaxEmoteWords == 2

\* ------------------------------------------------------- Option / Result
None == [some |-> FALSE]
Some(x) == [some |-> TRUE, v |-> x]
Ok(x) == [ok |-> TRUE, v |-> x]
Err(e) == [ok |-> FALSE, e |-> e]

\* ------------------------------------------------------------ characters
SP == " "
QM == "?"
AT == "@"

\* The position of the first character c in s, 0 when there is none.
RECURSIVE Find(_, _, _)
Find(s, c, i) ==
    IF i > Len(s) THEN 0
    ELSE IF s[i] = c THEN i
    ELSE Find(s, c, i + 1)

\* SplitN with the limit ignored: every space splits.
RECURSIVE SplitN_NoLimit(_, _)
SplitN_NoLimit(n, s) ==
    LET i == Find(s, SP, 1)
    IN IF i = 0 THEN <<s>>
       ELSE <<SubSeq(s, 1, i - 1)>> \o SplitN_NoLimit(n, SubSeq(s, i + 1, Len(s)))

\* str::splitn(n, ' '): at most n pieces, the last one the whole remainder.
RECURSIVE SplitN(_, _)
SplitN(n, s) ==
    IF n = 0 THEN <<>>
    ELSE LET i == Find(s, SP, 1)
         IN IF n = 1 \/ i = 0 THEN <<s>>
            ELSE <<SubSeq(s, 1, i - 1)>> \o SplitN(n - 1, SubSeq(s, i + 1, Len(s)))

\* The k-th call of Iterator::next on the pieces.
SplitNext(pieces, k) == IF k <= Len(pieces) THEN Some(pieces[k]) ELSE None

\* str::strip_prefix(c)
StripPrefix(s, c) == IF Len(s) > 0 /\ s[1] = c THEN Some(Tail(s)) ELSE None

\* -------------------------------------------------------------- registry
Server(n) == [tag |-> "Server", n |-> n]
Generated(n) == [tag |-> "Generated", n |-> n]

Unknown == [me |-> "Unknown"]
Not == [me |-> "Not"]
Has(x) == [me |-> "Has", v |-> x]

UserInfo(nick, trip, online) == [nick |-> nick, trip |-> trip, online |-> online]

\* Users::ourself
Ourself(self) == self

\* FindOnlineNick without the test of the online flag.
FindOnlineNick_AnyEntry(map, nick) ==
    LET hits == {k \in DOMAIN map : map[k].nick = nick}
    IN IF hits = {} THEN {None} ELSE {Some(k) : k \in hits}

\* Users::find_online_nick: the first entry, in the hash map's iteration
\* order, that is online and has the nickname.  The order is unspecified, so
\* the operator yields every result the call can have.
FindOnlineNick(map, nick) ==
    LET hits == {k \in DOMAIN map : map[k].online /\ map[k].nick = nick}
    IN IF hits = {} THEN {None} ELSE {Some(k) : k \in hits}

\* AccessUserId::into_server_id
IntoServerId(uid) == IF uid.tag = "Server" THEN Some(uid.n) ELSE None

\* impl Into<Option<T>> for MaybeExist<T>
MaybeInto(m) == IF m.me = "Has" THEN Some(m.v) ELSE None

\* AcquireServerIdentifier looking the entry up before it reads the tag.
AcquireServerIdentifier_EntryFirst(map, uid, tag) ==
    IF uid \notin DOMAIN map THEN None
    ELSE CASE tag = "UserId" ->
                IF IntoServerId(uid).some
                THEN Some([kind |-> "UserId", id |-> IntoServerId(uid).v])
                ELSE None
           [] tag = "Nickname" -> Some([kind |-> "Nickname", str |-> map[uid].nick])
           [] tag = "Trip" ->
                IF MaybeInto(map[uid].trip).some
                THEN Some([kind |-> "Trip", str |-> MaybeInto(map[uid].trip).v])
                ELSE None

\* Users::acquire_server_identifier
AcquireServerIdentifier(map, uid, tag) ==
    CASE tag = "UserId" ->
           IF IntoServerId(uid).some
           THEN Some([kind |-> "UserId", id |-> IntoServerId(uid).v])
           ELSE None
      [] tag = "Nickname" ->
           IF uid \in DOMAIN map
           THEN Some([kind |-> "Nickname", str |-> map[uid].nick])
           ELSE None
      [] tag = "Trip" ->
           IF uid \notin DOMAIN map THEN None
           ELSE IF MaybeInto(map[uid].trip).some
           THEN Some([kind |-> "Trip", str |-> MaybeInto(map[uid].trip).v])
           ELSE None

\* ------------------------------------------------- synthetic::Invite
InviteChoice(map, self, from, to, channel, time) ==
    IF to = <<"you">>
    THEN IF ~Ourself(self).some THEN {Err([kind |-> "UnknownSelf"])}
         ELSE {IF f.some
               THEN Ok([from |-> f.v, to |-> Ourself(self).v,
                        invite_channel |-> channel, time |-> time])
               ELSE Err([kind |-> "UnknownNick"]) : f \in FindOnlineNick(map, from)}
    ELSE {IF ~t.some THEN Err([kind |-> "UnknownNick"])
          ELSE IF ~Ourself(self).some THEN Err([kind |-> "UnknownSelf"])
          ELSE Ok([from |-> Ourself(self).v, to |-> t.v,
                   invite_channel |-> channel, time |-> time])
            : t \in FindOnlineNick(map, to)}

\* synthetic::Invite::from_info: every result the call can have.
InviteFromInfo(map, self, info) ==
    LET split == SplitN(4, info.text)
        from == SplitNext(split, 1)
        invited == SplitNext(split, 2)
        to == SplitNext(split, 3)
        joiner == SplitNext(split, 4)
        chan == SplitNext(split, 5)
    IN IF ~from.some THEN {Err([kind |-> "NoFrom"])}
       ELSE IF invited # Some(<<"invited">>) THEN {Err([kind |-> "NoInvited"])}
       ELSE IF ~to.some THEN {Err([kind |-> "NoTo"])}
       ELSE IF joiner # Some(<<"to">>) THEN {Err([kind |-> "NoToJoiner"])}
       ELSE IF ~chan.some THEN {Err([kind |-> "NoChannel"])}
       ELSE IF ~StripPrefix(chan.v, QM).some THEN {Err([kind |-> "InvalidChannel"])}
       ELSE InviteChoice(map, self, from.v, to.v, StripPrefix(chan.v, QM).v, info.time)

\* synthetic::Invite::from_invite
InviteFromInvite(invite) ==
    [from |-> Server(invite.from), invite_channel |-> invite.invite_channel,
     to |-> Server(invite.to), time |-> invite.time]

\* -------------------------------------------------- synthetic::Emote
\* EmoteFromEmote looking the nickname up before it considers the user id.
EmoteFromEmote_NickFirst(map, emote) ==
    LET byNick == IF emote.nick.some THEN FindOnlineNick(map, emote.nick.v) ELSE {None}
        found == {IF n.some THEN n
                  ELSE IF emote.user_id.some THEN Some(Server(emote.user_id.v))
                  ELSE None : n \in byNick}
    IN {IF u.some THEN Ok([text |-> emote.text, user_id |-> u.v, time |-> emote.time])
        ELSE Err([kind |-> "NoUserFound"]) : u \in found}

\* synthetic::Emote::from_emote: every result the call can have.
EmoteFromEmote(map, emote) ==
    LET found == IF emote.user_id.some THEN {Some(Server(emote.user_id.v))}
                 ELSE IF emote.nick.some THEN FindOnlineNick(map, emote.nick.v)
                 ELSE {None}
    IN {IF u.some THEN Ok([text |-> emote.text, user_id |-> u.v, time |-> emote.time])
        ELSE Err([kind |-> "NoUserFound"]) : u \in found}

\* synthetic::Emote::from_info: every result the call can have.
EmoteFromInfo(map, info) ==
    LET split == SplitN(2, info.text)
        first == SplitNext(split, 1)
        rest == SplitNext(split, 2)
    IN IF ~first.some THEN {Err([kind |-> "NoUser"])}
       ELSE IF ~StripPrefix(first.v, AT).some THEN {Err([kind |-> "NoAt"])}
       ELSE {IF u.some
             THEN Ok([text |-> IF rest.some THEN rest.v ELSE <<>>,
                      user_id |-> u.v, time |-> info.time])
             ELSE Err([kind |-> "NoUserFound"])
               : u \in FindOnlineNick(map, StripPrefix(first.v, AT).v)}

\* ------------------------------------------------------- MaybeExist
\* MaybeExist::from_option_unknown
FromOptionUnknown(opt) == IF opt.some THEN Has(opt.v) ELSE Unknown

\* MaybeExist::map, the closure given as a function
MaybeMap(m, f) == IF m.me = "Has" THEN Has(f[m.v]) ELSE m

MaybeAndThen_NotForgotten(m, f) == IF m.me = "Has" THEN f[m.v] ELSE Unknown

\* MaybeExist::and_then, the closure given as a function
MaybeAndThen(m, f) == IF m.me = "Has" THEN f[m.v] ELSE m

\* ------------------------------------------------------------ JsonValue
\* A number is hi * 2^32 + v; the numbers of this model stay below 2^64.
Null == [t |-> "null"]
JStr(s) == [t |-> "string", str |-> s]
JNum(n) == [t |-> "number", num |-> n, hi |-> 0]
JNumHi(h, n) == [t |-> "number", num |-> n, hi |-> h]
JBool(b) == [t |-> "boolean", bool |-> b]
JArr(a) == [t |-> "array", arr |-> a]
JObj(o) == [t |-> "object", obj |-> o]

\* json[key]: Null for a missing key and for a value that is no object.
Index(json, key) ==
    IF json.t = "object" /\ key \in DOMAIN json.obj THEN json.obj[key] ELSE Null

\* JsonValue::as_str and JsonValue::take_string (each field is taken once)
AsStr(j) == IF j.t = "string" THEN Some(j.str) ELSE None
AsBool(j) == IF j.t = "boolean" THEN Some(j.bool) ELSE None
AsU64(j) == IF j.t = "number" /\ j.num >= 0 /\ j.hi >= 0 THEN Some(j) ELSE None
AsU32(j) == IF j.t = "number" /\ j.num >= 0 /\ j.hi = 0 THEN Some(j) ELSE None
\* util::as_array, util::as_object
AsArray(j) == IF j.t = "array" THEN Some(j.arr) ELSE None
AsObject(j) == IF j.t = "object" THEN Some(j.obj) ELSE None

InvalidField(name) == [kind |-> "InvalidField", name |-> name]
InvalidCommandField(name) == [kind |-> "InvalidCommandField", name |-> name]
\* The call does not return: the thread panics.
Panic == [ok |-> FALSE, e |-> [kind |-> "panic"]]

\* json[id::CMD].as_str() == Some(Self::CMD); a tag is one word.
CmdIs(json, cmd) == AsStr(Index(json, "cmd")) = Some(<<cmd>>)

TripOf_EmptyKept == [x \in Seq(STRING) |-> Has(x)]

\* Trip::from_json
TripOf == [x \in Seq(STRING) |-> IF x = <<>> THEN Not ELSE Has(x)]
TripFromJson(j) == MaybeAndThen(FromOptionUnknown(AsStr(j)), TripOf)

\* Timestamp::from_json
TimestampFromJson(j) ==
    IF AsU64(j).some THEN Ok(AsU64(j).v) ELSE Err(InvalidField("time"))

\* UserType::try_from(&str)
UserTypeTryFrom(str) ==
    IF str = <<"user">> THEN Ok("User")
    ELSE IF str = <<"mod">> THEN Ok("Mod")
    ELSE IF str = <<"admin">> THEN Ok("Admin")
    ELSE Err(<<>>)

\* UserType::from_json
UserTypeFromJson(j) ==
    IF AsStr(j).some /\ UserTypeTryFrom(AsStr(j).v).ok
    THEN Some(UserTypeTryFrom(AsStr(j).v).v)
    ELSE None

\* ---------------------------------------------------------------- Color
\* The UTF-8 length of a character: the one two-byte character of the model
\* is "é".
ByteLen(c) == IF c = "é" THEN 2 ELSE 1

\* The bytes of a string, each with its character and its place in it.
RECURSIVE Bytes(_)
Bytes(s) ==
    IF s = <<>> THEN <<>>
    ELSE [i \in 1 .. ByteLen(s[1]) |-> [c |-> s[1], i |-> i]] \o Bytes(Tail(s))

\* str::trim_start_matches('#'): every leading '#' goes.
RECURSIVE TrimStartHash(_)
TrimStartHash(s) ==
    IF s # <<>> /\ s[1] = "#" THEN TrimStartHash(Tail(s)) ELSE s

IsCharBoundary(bytes, p) == p = 0 \/ p = Len(bytes) \/ (p < Len(bytes) /\ bytes[p + 1].i = 1)

Lower == <<"0", "1", "2", "3", "4", "5", "6", "7", "8", "9", "a", "b", "c", "d", "e", "f">>
Upper == <<"0", "1", "2", "3", "4", "5", "6", "7", "8", "9", "A", "B", "C", "D", "E", "F">>

\* char::to_digit(16)
ToDigit(c) ==
    IF Find(Lower, c, 1) > 0 THEN Some(Find(Lower, c, 1) - 1)
    ELSE IF Find(Upper, c, 1) > 0 THEN Some(Find(Upper, c, 1) - 1)
    ELSE None

RECURSIVE HexValue(_, _)
HexValue(digits, acc) ==
    IF digits = <<>> THEN Ok(acc)
    ELSE IF ~ToDigit(digits[1]).some THEN Err([kind |-> "ParseError"])
    ELSE HexValue(Tail(digits), acc * 16 + ToDigit(digits[1]).v)

\* u8::from_str_radix(src, 16): an optional '+' and then hex digits; a value
\* above 255 overflows.
FromStrRadix16(src) ==
    IF src = <<>> THEN Err([kind |-> "ParseError"])
    ELSE IF src[1] \in {"+", "-"} /\ Len(src) = 1 THEN Err([kind |-> "ParseError"])
    ELSE LET digits == IF src[1] = "+" THEN Tail(src) ELSE src
             n == HexValue(digits, 0)
         IN IF n.ok /\ n.v > 255 THEN Err([kind |-> "ParseError"]) ELSE n

\* u8::from_str_radix(&text[a..b], 16)?: slicing inside a character panics.
Channel(bytes, a, b) ==
    IF ~IsCharBoundary(bytes, a) \/ ~IsCharBoundary(bytes, b) THEN Panic
    ELSE FromStrRadix16([k \in 1 .. b - a |-> bytes[a + k].c])

\* Color::try_from(&str)
ColorTryFrom(str) ==
    LET text == Bytes(TrimStartHash(str))
        len == Len(text)
        w == IF len = 3 THEN 1 ELSE 2
        red == Channel(text, 0, w)
        green == Channel(text, w, 2 * w)
        blue == Channel(text, 2 * w, 3 * w)
    IN IF len > 6 THEN Err([kind |-> "UnexpectedEOF"])
       ELSE IF len < 6 /\ len # 3 THEN Err([kind |-> "TooManyCharacters"])
       ELSE IF ~red.ok THEN red
       ELSE IF ~green.ok THEN green
       ELSE IF ~blue.ok THEN blue
       ELSE Ok([r |-> red.v, g |-> green.v, b |-> blue.v])

\* json[id::COLOR].as_str().and_then(|x| Color::try_from(x).ok())
ColorFromJson(j) ==
    IF ~AsStr(j).some THEN Ok(None)
    ELSE LET c == ColorTryFrom(AsStr(j).v)
         IN IF c = Panic THEN Panic
            ELSE IF c.ok THEN Ok(Some(c.v))
            ELSE Ok(None)

\* ------------------------------------------------------------- decoders
\* The decoders ignore their ServerApi argument.

\* OnlineSetUser::from_json
OnlineSetUserFromJson(json) ==
    LET channel == AsStr(Index(json, "channel"))
        is_me == AsBool(Index(json, "isme"))
        is_bot == AsBool(Index(json, "isBot"))
        nick == AsStr(Index(json, "nick"))
        trip == TripFromJson(Index(json, "trip"))
        user_type == UserTypeFromJson(Index(json, "uType"))
        user_id == AsU64(Index(json, "userid"))
        hash == AsStr(Index(json, "hash"))
        color == ColorFromJson(Index(json, "color"))
        level == AsU64(Index(json, "level"))
    IN IF ~channel.some THEN Err(InvalidCommandField("channel"))
       ELSE IF ~nick.some THEN Err(InvalidCommandField("nick"))
       ELSE IF ~hash.some THEN Err(InvalidCommandField("channel"))
       ELSE IF ~color.ok THEN color
       ELSE Ok([channel |-> channel.v, is_me |-> is_me, is_bot |-> is_bot,
                nick |-> nick.v, trip |-> trip, user_type |-> user_type,
                user_id |-> user_id, hash |-> hash.v, color |-> color.v,
                level |-> level])

\* x.into_iter().map(take_string).collect::<Option<Vec<Nickname>>>()
CollectNicks(arr) ==
    IF \A i \in 1 .. Len(arr) : AsStr(arr[i]).some
    THEN Some([i \in 1 .. Len(arr) |-> AsStr(arr[i]).v])
    ELSE None

\* users.into_iter().map(OnlineSetUser::from_json).collect::<Result<Vec<_>, _>>():
\* the elements are decoded in order up to the first that fails.
RECURSIVE CollectUsers(_)
CollectUsers(arr) ==
    IF arr = <<>> THEN Ok(<<>>)
    ELSE LET u == OnlineSetUserFromJson(arr[1])
         IN IF ~u.ok THEN u
            ELSE LET rest == CollectUsers(Tail(arr))
                 IN IF ~rest.ok THEN rest ELSE Ok(<<u.v>> \o rest.v)

OnlineSetFromJson_TimeFirst(json) ==
    LET na == AsArray(Index(json, "nicks"))
        nicks == IF na.some THEN CollectNicks(na.v) ELSE None
        ua == AsArray(Index(json, "users"))
        decoded == IF ua.some THEN CollectUsers(ua.v) ELSE Ok(<<>>)
        channel == AsStr(Index(json, "text"))
        time == TimestampFromJson(Index(json, "time"))
    IN IF ~CmdIs(json, "onlineSet") THEN Err(InvalidCommandField("onlineSet"))
       ELSE IF ~time.ok THEN time
       ELSE IF ~decoded.ok THEN decoded
       ELSE Ok([nicks |-> nicks,
                users |-> IF ua.some THEN Some(decoded.v) ELSE None,
                channel |-> channel, time |-> time.v])

\* OnlineSet::from_json
OnlineSetFromJson(json) ==
    LET na == AsArray(Index(json, "nicks"))
        nicks == IF na.some THEN CollectNicks(na.v) ELSE None
        ua == AsArray(Index(json, "users"))
        decoded == IF ua.some THEN CollectUsers(ua.v) ELSE Ok(<<>>)
        channel == AsStr(Index(json, "text"))
        time == TimestampFromJson(Index(json, "time"))
    IN IF ~CmdIs(json, "onlineSet") THEN Err(InvalidCommandField("onlineSet"))
       ELSE IF ~decoded.ok THEN decoded
       ELSE IF ~time.ok THEN time
       ELSE Ok([nicks |-> nicks,
                users |-> IF ua.some THEN Some(decoded.v) ELSE None,
                channel |-> channel, time |-> time.v])

\* Session::from_json
SessionFromJson(json) ==
    LET count == AsU32(Index(json, "users"))
        channels == AsU32(Index(json, "chans"))
        object == AsObject(Index(json, "public"))
        session_id == AsStr(Index(json, "sessionID"))
        restored == AsBool(Index(json, "restored"))
        time == TimestampFromJson(Index(json, "time"))
    IN IF ~CmdIs(json, "session") THEN Err(InvalidCommandField("session"))
       ELSE IF ~count.some THEN Err(InvalidField("users"))
       ELSE IF ~channels.some THEN Err(InvalidField("chans"))
       ELSE IF object.some /\ \E c \in DOMAIN object.v : ~AsU32(object.v[c]).some
            THEN Err(InvalidField("public"))
       ELSE IF ~session_id.some THEN Err(InvalidField("sessionID"))
       ELSE IF ~time.ok THEN time
       ELSE Ok([users |-> count.v, channels |-> channels.v,
                public |-> IF object.some
                           THEN [c \in DOMAIN object.v |-> AsU32(object.v[c]).v]
                           ELSE <<>>,
                session_id |-> session_id.v, restored |-> restored, time |-> time.v])

\* Info::from_json
InfoFromJson(json) ==
    LET text == AsStr(Index(json, "text"))
        channel == AsStr(Index(json, "channel"))
        time == TimestampFromJson(Index(json, "time"))
    IN IF ~CmdIs(json, "info") THEN Err(InvalidCommandField("info"))
       ELSE IF ~text.some THEN Err(InvalidField("text"))
       ELSE IF ~time.ok THEN time
       ELSE Ok([text |-> text.v, channel |-> channel, time |-> time.v])

ChatFromJson_FlagIfBoolean(json) ==
    LET nick == AsStr(Index(json, "nick"))
        user_type == UserTypeFromJson(Index(json, "uType"))
        user_id == AsU64(Index(json, "userid"))
        channel == AsStr(Index(json, "channel"))
        text == AsStr(Index(json, "text"))
        level == AsU64(Index(json, "level"))
        mod == AsBool(Index(json, "mod"))
        admin == AsBool(Index(json, "admin"))
        trip == TripFromJson(Index(json, "trip"))
        time == TimestampFromJson(Index(json, "time"))
    IN IF ~CmdIs(json, "chat") THEN Err(InvalidCommandField("chat"))
       ELSE IF ~nick.some THEN Err(InvalidField("nick"))
       ELSE IF ~text.some THEN Err(InvalidField("text"))
       ELSE IF ~time.ok THEN time
       ELSE Ok([nick |-> nick.v, user_type |-> user_type, user_id |-> user_id,
                channel |-> channel, text |-> text.v, level |-> level,
                is_mod |-> mod.some,
                is_admin |-> admin.some,
                trip |-> trip, time |-> time.v])

\* Chat::from_json
ChatFromJson(json) ==
    LET nick == AsStr(Index(json, "nick"))
        user_type == UserTypeFromJson(Index(json, "uType"))
        user_id == AsU64(Index(json, "userid"))
        channel == AsStr(Index(json, "channel"))
        text == AsStr(Index(json, "text"))
        level == AsU64(Index(json, "level"))
        mod == AsBool(Index(json, "mod"))
        admin == AsBool(Index(json, "admin"))
        trip == TripFromJson(Index(json, "trip"))
        time == TimestampFromJson(Index(json, "time"))
    IN IF ~CmdIs(json, "chat") THEN Err(InvalidCommandField("chat"))
       ELSE IF ~nick.some THEN Err(InvalidField("nick"))
       ELSE IF ~text.some THEN Err(InvalidField("text"))
       ELSE IF ~time.ok THEN time
       ELSE Ok([nick |-> nick.v, user_type |-> user_type, user_id |-> user_id,
                channel |-> channel, text |-> text.v, level |-> level,
                is_mod |-> IF mod.some THEN mod.v ELSE FALSE,
                is_admin |-> IF admin.some THEN admin.v ELSE FALSE,
                trip |-> trip, time |-> time.v])

\* Captcha::from_json
CaptchaFromJson(json) ==
    LET text == AsStr(Index(json, "text"))
        channel == AsStr(Index(json, "channel"))
    IN IF ~CmdIs(json, "captcha") THEN Err(InvalidCommandField("captcha"))
       ELSE IF ~text.some THEN Err(InvalidField("text"))
       ELSE Ok([text |-> text.v, channel |-> channel])

\* Emote::from_json
EmoteFromJson(json) ==
    LET text == AsStr(Index(json, "text"))
        nick == AsStr(Index(json, "nick"))
        time == TimestampFromJson(Index(json, "time"))
        trip == TripFromJson(Index(json, "trip"))
        user_id == AsU64(Index(json, "userid"))
    IN IF ~CmdIs(json, "emote") THEN Err(InvalidCommandField("emote"))
       ELSE IF ~text.some THEN Err(InvalidField("text"))
       ELSE IF ~time.ok THEN time
       ELSE Ok([text |-> text.v, nick |-> nick, time |-> time.v, trip |-> trip,
                user_id |-> user_id])

\* Invite::from_json
InviteFromJson(json) ==
    LET channel == AsStr(Index(json, "channel"))
        from == AsU64(Index(json, "from"))
        to == AsU64(Index(json, "to"))
        invite_channel == AsStr(Index(json, "inviteChannel"))
        time == TimestampFromJson(Index(json, "time"))
    IN IF ~CmdIs(json, "invite") THEN Err(InvalidCommandField("invite"))
       ELSE IF ~from.some THEN Err(InvalidField("from"))
       ELSE IF ~to.some THEN Err(InvalidField("to"))
       ELSE IF ~invite_channel.some THEN Err(InvalidField("inviteChannel"))
       ELSE IF ~time.ok THEN time
       ELSE Ok([channel |-> channel, from |-> from.v, to |-> to.v,
                invite_channel |-> invite_channel.v, time |-> time.v])

\* OnlineAddFromJson reading its fields before it checks the tag.
OnlineAddFromJson_TagLate(json) ==
    LET color == ColorFromJson(Index(json, "color"))
        nick == AsStr(Index(json, "nick"))
        time == TimestampFromJson(Index(json, "time"))
    IN IF ~color.ok THEN color
       ELSE IF ~nick.some THEN Err(InvalidField("nick"))
       ELSE IF ~time.ok THEN time
       ELSE IF ~CmdIs(json, "onlineAdd") THEN Err(InvalidCommandField("onlineAdd"))
       ELSE Ok([channel |-> AsStr(Index(json, "channel")), color |-> color.v,
                hash |-> AsStr(Index(json, "hash")),
                is_bot |-> AsBool(Index(json, "isBot")),
                level |-> AsU64(Index(json, "level")), nick |-> nick.v,
                time |-> time.v, trip |-> TripFromJson(Index(json, "trip")),
                user_type |-> UserTypeFromJson(Index(json, "uType")),
                user_id |-> AsU64(Index(json, "userid"))])

\* OnlineAdd::from_json
OnlineAddFromJson(json) ==
    LET channel == AsStr(Index(json, "channel"))
        color == ColorFromJson(Index(json, "color"))
        hash == AsStr(Index(json, "hash"))
        is_bot == AsBool(Index(json, "isBot"))
        level == AsU64(Index(json, "level"))
        nick == AsStr(Index(json, "nick"))
        time == TimestampFromJson(Index(json, "time"))
        trip == TripFromJson(Index(json, "trip"))
        user_type == UserTypeFromJson(Index(json, "uType"))
        user_id == AsU64(Index(json, "userid"))
    IN IF ~CmdIs(json, "onlineAdd") THEN Err(InvalidCommandField("onlineAdd"))
       ELSE IF ~color.ok THEN color
       ELSE IF ~nick.some THEN Err(InvalidField("nick"))
       ELSE IF ~time.ok THEN time
       ELSE Ok([channel |-> channel, color |-> color.v, hash |-> hash,
                is_bot |-> is_bot, level |-> level, nick |-> nick.v,
                time |-> time.v, trip |-> trip, user_type |-> user_type,
                user_id |-> user_id])

\* OnlineRemove::from_json
OnlineRemoveFromJson(json) ==
    LET channel == AsStr(Index(json, "channel"))
        nick == AsStr(Index(json, "nick"))
        time == TimestampFromJson(Index(json, "time"))
        user_id == AsU64(Index(json, "userid"))
    IN IF ~CmdIs(json, "onlineRemove") THEN Err(InvalidCommandField("onlineRemove"))
       ELSE IF ~nick.some THEN Err(InvalidField("nick"))
       ELSE IF ~time.ok THEN time
       ELSE Ok([channel |-> channel, nick |-> nick.v, time |-> time.v,
                user_id |-> user_id])

\* WarnFromJson checking the tag as its sibling decoders do.
WarnFromJson_TagChecked(json) ==
    LET channel == AsStr(Index(json, "channel"))
        text == AsStr(Index(json, "text"))
        time == TimestampFromJson(Index(json, "time"))
    IN IF ~CmdIs(json, "warn") THEN Err(InvalidCommandField("warn"))
       ELSE IF ~text.some THEN Err(InvalidField("text"))
       ELSE IF ~time.ok THEN time
       ELSE Ok([channel |-> channel, text |-> text.v, time |-> time.v])

\* Warn::from_json
WarnFromJson(json) ==
    LET channel == AsStr(Index(json, "channel"))
        text == AsStr(Index(json, "text"))
        time == TimestampFromJson(Index(json, "time"))
    IN IF ~text.some THEN Err(InvalidField("text"))
       ELSE IF ~time.ok THEN time
       ELSE Ok([channel |-> channel, text |-> text.v, time |-> time.v])

\* ------------------------------------------------------------ inputs
Nicks == {<<"alice">>, <<"bob">>}
Times == {7, 9}

\* The keys the caller inserts under: ids the server sent and an id of its own.
Ids == {Server(0), Server(1), Generated(0)}
\* The user ids a structured command carries; Server(2) is never a key.
WireIds == {0, 2}

\* The words an invite text may carry at each position.
TokenAt(i) ==
    CASE i = 1 -> {<<"alice">>, <<"carol">>}
      [] i = 2 -> {<<"invited">>, <<"bob">>}
      [] i = 3 -> {<<"you">>, <<"bob">>}
      [] i = 4 -> {<<"to">>, <<"you">>}
      [] i = 5 -> {<<QM, "general">>, <<"general">>, <<>>}
      [] OTHER -> {<<"bob">>}

RECURSIVE Join(_)
Join(ws) ==
    IF Len(ws) = 0 THEN <<>>
    ELSE IF Len(ws) = 1 THEN ws[1]
    ELSE ws[1] \o <<SP>> \o Join(Tail(ws))

RECURSIVE TokenSeqs(_)
TokenSeqs(n) ==
    IF n = 0 THEN {<<>>}
    ELSE {Append(ws, w) : ws \in TokenSeqs(n - 1), w \in TokenAt(n)}

InviteTexts == UNION {{Join(ws) : ws \in TokenSeqs(n)} : n \in 0 .. MaxTokens}

EmoteHeads == {<<AT, "bob">>, <<AT, "alice">>, <<AT, "carol">>, <<AT>>, <<"bob">>, <<>>}
\* The words an emote text may carry after its first at each position.
EmoteWordAt(i) ==
    CASE i = 1 -> {<<"waves">>, <<>>}
      [] i = 2 -> {<<"hello">>, <<>>}
      [] OTHER -> {<<"bob">>}

RECURSIVE WordSeqs(_)
WordSeqs(n) ==
    IF n = 0 THEN {<<>>}
    ELSE {Append(ws, w) : ws \in WordSeqs(n - 1), w \in EmoteWordAt(n)}

EmoteTexts ==
    UNION {{Join(<<h>> \o ws) : h \in EmoteHeads, ws \in WordSeqs(n)} : n \in 0 .. MaxEmoteWords}

Infos(texts, times) ==
    {[text |-> t, channel |-> None, time |-> tm] : t \in texts, tm \in times}

Emotes ==
    {[text |-> <<"waves">>, nick |-> n, time |-> tm, trip |-> Unknown, user_id |-> u]
       : n \in {None} \cup {Some(x) : x \in Nicks \cup {<<"carol">>}},
         tm \in Times,
         u \in {None} \cup {Some(k) : k \in WireIds}}

Invites ==
    {[channel |-> None, from |-> f, to |-> t, invite_channel |-> <<"general">>, time |-> tm]
       : f \in WireIds, t \in WireIds, tm \in Times}

\* What the caller holds: an Info notice, a structured Emote or a structured
\* Invite.
SynthInputs ==
    {[kind |-> "Info", v |-> i] : i \in Infos(InviteTexts, {7}) \cup Infos(EmoteTexts, Times)}
      \cup {[kind |-> "Emote", v |-> e] : e \in Emotes}
      \cup {[kind |-> "Invite", v |-> i] : i \in Invites}

NoCall == [op |-> "none"]
Call(op, out) == [op |-> op, out |-> out]

\* ------------------------------------------------------------ actions
\* Users::default; minted is the history of what generate_id has returned.
UsersDefault ==
    /\ id = 0
    /\ ourself = None
    /\ users = <<>>
    /\ minted = <<>>

Init ==
    /\ UsersDefault
    /\ arg \in SynthInputs
    /\ ret = NoCall

\* Users::generate_id
GenerateId ==
    /\ id < MaxGenerated
    /\ id' = id + 1
    /\ ret' = Call("generate_id", Generated(id))
    /\ minted' = Append(minted, Generated(id))
    /\ UNCHANGED <<ourself, users, arg>>

\* InsertAt keyed by the number alone: an id of the other tag with the same
\* number is taken for the same key.
InsertAt_ByNumber(k, info) ==
    /\ k \in DOMAIN users \/ Cardinality(DOMAIN users) < MaxUsers
    /\ users' = [x \in {j \in DOMAIN users : j.n # k.n} \cup {k} |->
                   IF x = k THEN info ELSE users[x]]
    /\ ret' = NoCall
    /\ UNCHANGED <<id, ourself, arg, minted>>

\* Users::insert
InsertAt(k, info) ==
    /\ k \in DOMAIN users \/ Cardinality(DOMAIN users) < MaxUsers
    /\ users' = [x \in DOMAIN users \cup {k} |-> IF x = k THEN info ELSE users[x]]
    /\ ret' = NoCall
    /\ UNCHANGED <<id, ourself, arg, minted>>

Insert ==
    \E k \in Ids, nick \in Nicks, online \in BOOLEAN :
        InsertAt(k, UserInfo(nick, Unknown, online))

\* Clear forgetting which id is the connection's own.
Clear_ForgetsSelf ==
    /\ users' = <<>>
    /\ ourself' = None
    /\ ret' = NoCall
    /\ UNCHANGED <<id, arg, minted>>

\* Clear starting the registry over, its counter included.
Clear_ResetsId ==
    /\ users' = <<>>
    /\ id' = 0
    /\ ret' = NoCall
    /\ UNCHANGED <<ourself, arg, minted>>

\* Users::clear
Clear ==
    /\ users' = <<>>
    /\ ret' = NoCall
    /\ UNCHANGED <<id, ourself, arg, minted>>

\* The caller's assignment to the public field Users::ourself
SetOurself ==
    \E k \in Ids :
        /\ ourself' = Some(k)
        /\ ret' = NoCall
        /\ UNCHANGED <<id, users, arg, minted>>

CallInviteFromInfo ==
    /\ arg.kind = "Info"
    /\ \E out \in InviteFromInfo(users, ourself, arg.v) :
         ret' = Call("Invite::from_info", out)
    /\ UNCHANGED <<id, ourself, users, arg, minted>>

CallInviteFromInvite ==
    /\ arg.kind = "Invite"
    /\ ret' = Call("Invite::from_invite", InviteFromInvite(arg.v))
    /\ UNCHANGED <<id, ourself, users, arg, minted>>

CallEmoteFromEmote ==
    /\ arg.kind = "Emote"
    /\ \E out \in EmoteFromEmote(users, arg.v) :
         ret' = Call("Emote::from_emote", out)
    /\ UNCHANGED <<id, ourself, users, arg, minted>>

CallEmoteFromInfo ==
    /\ arg.kind = "Info"
    /\ \E out \in EmoteFromInfo(users, arg.v) :
         ret' = Call("Emote::from_info", out)
    /\ UNCHANGED <<id, ourself, users, arg, minted>>

Next ==
    \/ Insert
    \/ Clear
    \/ SetOurself
    \/ CallInviteFromInfo
    \/ CallInviteFromInvite
    \/ CallEmoteFromEmote
    \/ CallEmoteFromInfo

Spec == Init /\ [][Next]_vars

\* The registry on its own: ids are generated and entries kept under them.
InsertGenerated ==
    \E n \in 0 .. id - 1, nick \in Nicks, online \in BOOLEAN :
        InsertAt(Generated(n), UserInfo(nick, Unknown, online))

\* The ids a caller asks the registry about.
Keys == Ids \cup {Generated(n) : n \in 0 .. MaxGenerated - 1}

\* A call that reads the registry: what it was asked and what it returned.
Asked(kind, v, op, out) ==
    /\ arg' = [kind |-> kind, v |-> v]
    /\ ret' = Call(op, out)
    /\ UNCHANGED <<id, ourself, users, minted>>

\* Users::get
Get ==
    \E k \in Keys :
        Asked("Id", k, "get", IF k \in DOMAIN users THEN Some(users[k]) ELSE None)

\* Users::get_mut: the caller writes through the reference it is handed, here
\* the online flag of the entry.
GetMut ==
    \E k \in Keys :
        /\ arg' = [kind |-> "Id", v |-> k]
        /\ ret' = Call("get_mut", IF k \in DOMAIN users THEN Some(users[k]) ELSE None)
        /\ users' = IF k \in DOMAIN users
                     THEN [users EXCEPT ![k] = UserInfo(users[k].nick, users[k].trip, ~users[k].online)]
                     ELSE users
        /\ UNCHANGED <<id, ourself, minted>>

\* Users::contains_key
ContainsKey ==
    \E k \in Keys : Asked("Id", k, "contains_key", k \in DOMAIN users)

\* Users::find_online_nick
CallFindOnlineNick ==
    \E nick \in Nicks :
        \E out \in FindOnlineNick(users, nick) :
            Asked("Nick", nick, "find_online_nick", out)

InitUsers ==
    /\ UsersDefault
    /\ arg = [kind |-> "none"]
    /\ ret = NoCall

NextUsers ==
    \/ GenerateId
    \/ Insert
    \/ InsertGenerated
    \/ Clear
    \/ Get
    \/ GetMut
    \/ ContainsKey
    \/ CallFindOnlineNick

SpecUsers == InitUsers /\ [][NextUsers]_vars

\* The registry with trips and the self-identifier: entries are kept with
\* each state of the trip, and an id is projected to what the server knows
\* it by.
ServerIdentifierTags == {"UserId", "Nickname", "Trip"}

InsertTrip ==
    \E k \in {Server(0), Generated(0)}, trip \in {Unknown, Not, Has(<<"trip">>)} :
        InsertAt(k, UserInfo(<<"alice">>, trip, TRUE))

\* Users::acquire_server_identifier
CallAcquireServerIdentifier ==
    \E k \in Keys, tag \in ServerIdentifierTags :
        /\ arg' = [kind |-> "IdTag", v |-> k, tag |-> tag]
        /\ ret' = Call("acquire_server_identifier", AcquireServerIdentifier(users, k, tag))
        /\ UNCHANGED <<id, ourself, users, minted>>

\* Users::ourself
CallOurself ==
    /\ arg' = [kind |-> "none"]
    /\ ret' = Call("ourself", Ourself(ourself))
    /\ UNCHANGED <<id, ourself, users, minted>>

NextRegistry ==
    \/ GenerateId
    \/ InsertTrip
    \/ Clear
    \/ SetOurself
    \/ Get
    \/ GetMut
    \/ ContainsKey
    \/ CallFindOnlineNick
    \/ CallAcquireServerIdentifier
    \/ CallOurself

SpecRegistry == InitUsers /\ [][NextRegistry]_vars

\* ------------------------------------------------------ decoder inputs
MaxBad == 2

W(word) == JStr(<<word>>)


\* A well-formed OnlineSetUser, and one without (or with another) field.
UserJson ==
    [channel |-> W("lounge"), isme |-> JBool(FALSE), isBot |-> JBool(FALSE),
     nick |-> W("alice"), trip |-> W("trip"), uType |-> W("user"),
     userid |-> JNum(1), hash |-> W("hash"),
     color |-> JStr(<<"F", "F", "0", "0", "1", "a">>), level |-> JNum(100)]
Without(m, k) == [x \in DOMAIN m \ {k} |-> m[x]]

\* A well-formed message of every command, every field present.
Base(tag) ==
    CASE tag = "onlineSet" ->
           [cmd |-> W(tag), nicks |-> JArr(<<W("alice"), W("bob")>>),
            users |-> JArr(<<JObj(UserJson)>>), channel |-> W("lounge"),
            text |-> W("hello"), time |-> JNum(7)]
      [] tag = "session" ->
           [cmd |-> W(tag), users |-> JNum(3), chans |-> JNum(2),
            public |-> JObj([lounge |-> JNum(2)]), sessionID |-> W("sid"),
            restored |-> JBool(FALSE), time |-> JNum(7)]
      [] tag = "info" ->
           [cmd |-> W(tag), text |-> W("hello"), channel |-> W("lounge"),
            time |-> JNum(7)]
      [] tag = "chat" ->
           [cmd |-> W(tag), nick |-> W("alice"), uType |-> W("user"),
            userid |-> JNum(1), channel |-> W("lounge"), text |-> W("hello"),
            level |-> JNum(100), mod |-> JBool(TRUE), admin |-> JBool(TRUE),
            trip |-> W("trip"), time |-> JNum(7)]
      [] tag = "captcha" ->
           [cmd |-> W(tag), text |-> W("hello"), channel |-> W("lounge")]
      [] tag = "emote" ->
           [cmd |-> W(tag), text |-> W("hello"), nick |-> W("alice"),
            time |-> JNum(7), trip |-> W("trip"), userid |-> JNum(1)]
      [] tag = "invite" ->
           [cmd |-> W(tag), channel |-> W("lounge"), from |-> JNum(1),
            to |-> JNum(2), inviteChannel |-> W("general"), time |-> JNum(7)]
      [] tag = "onlineAdd" ->
           [cmd |-> W(tag), channel |-> W("lounge"),
            color |-> JStr(<<"F", "F", "0", "0", "1", "a">>), hash |-> W("hash"),
            isBot |-> JBool(FALSE), level |-> JNum(100), nick |-> W("alice"),
            time |-> JNum(7), trip |-> W("trip"), uType |-> W("user"),
            userid |-> JNum(1)]
      [] tag = "onlineRemove" ->
           [cmd |-> W(tag), channel |-> W("lounge"), nick |-> W("alice"),
            time |-> JNum(7), userid |-> JNum(1)]
      [] tag = "warn" ->
           [cmd |-> W(tag), channel |-> W("lounge"), text |-> W("hello"),
            time |-> JNum(7)]
      [] tag = "user" -> UserJson

Tags ==
    {"onlineSet", "session", "info", "chat", "captcha", "emote", "invite",
     "onlineAdd", "onlineRemove", "warn", "user"}

\* The other values a field may arrive with; it may also be missing.
Alt(key) ==
    CASE key = "cmd" -> {JNum(1), W("join")}
      [] key \in {"time", "userid", "level", "from", "to"} -> {W("soon"), JNum(0 - 1)}
      [] key = "chans" -> {JNumHi(1, 0)}
      [] key = "users" ->
           {JNumHi(1, 0),
            JArr(<<JObj(UserJson), JObj(Without(UserJson, "hash")),
                   JObj(Without(UserJson, "nick"))>>)}
      [] key = "nicks" -> {JArr(<<W("alice"), JNum(1)>>)}
      [] key = "public" -> {JObj([lounge |-> JNum(2), lobby |-> W("many")])}
      [] key \in {"isme", "isBot", "restored"} -> {JNum(1)}
      [] key \in {"mod", "admin"} -> {JNum(1), JBool(FALSE)}
      [] key = "trip" -> {JStr(<<>>), JNum(1)}
      [] key = "uType" -> {W("owner"), W("mod")}
      [] key = "color" ->
           {JStr(<<"z", "z", "z", "z", "z", "z">>), JStr(<<"#", "F", "0", "9">>),
            JStr(<<"é", "1">>), JNum(1)}
      [] OTHER -> {JNum(1)}

RECURSIVE Perturbed(_, _)
Perturbed(m, n) ==
    IF n = 0 THEN {m}
    ELSE LET less == Perturbed(m, n - 1)
         IN less
              \cup {Without(x, k) : x \in less, k \in DOMAIN m}
              \cup UNION {{[x EXCEPT ![k] = a] : a \in Alt(k)}
                            : <<x, k>> \in {<<y, j>> \in less \X DOMAIN m : j \in DOMAIN y}}

JsonInputs ==
    {[kind |-> "Json", v |-> j] :
        j \in {Null, W("chat")} \cup {JObj(m) : m \in UNION {Perturbed(Base(t), MaxBad) : t \in Tags}}}

\* --------------------------------------------------- decoding, as steps
InitDecode ==
    /\ UsersDefault
    /\ arg \in JsonInputs
    /\ ret = NoCall

\* from_json takes the JsonValue by value: a message is decoded once.
Decoded(op, out) ==
    /\ arg.kind = "Json"
    /\ ret = NoCall
    /\ ret' = Call(op, out)
    /\ UNCHANGED <<id, ourself, users, arg, minted>>

CallOnlineSetUserFromJson == Decoded("OnlineSetUser::from_json", OnlineSetUserFromJson(arg.v))
CallOnlineSetFromJson == Decoded("OnlineSet::from_json", OnlineSetFromJson(arg.v))
CallSessionFromJson == Decoded("Session::from_json", SessionFromJson(arg.v))
CallInfoFromJson == Decoded("Info::from_json", InfoFromJson(arg.v))
CallChatFromJson == Decoded("Chat::from_json", ChatFromJson(arg.v))
CallCaptchaFromJson == Decoded("Captcha::from_json", CaptchaFromJson(arg.v))
CallEmoteFromJson == Decoded("Emote::from_json", EmoteFromJson(arg.v))
CallInviteFromJson == Decoded("Invite::from_json", InviteFromJson(arg.v))
CallOnlineAddFromJson == Decoded("OnlineAdd::from_json", OnlineAddFromJson(arg.v))
CallOnlineRemoveFromJson == Decoded("OnlineRemove::from_json", OnlineRemoveFromJson(arg.v))
CallWarnFromJson == Decoded("Warn::from_json", WarnFromJson(arg.v))

NextDecode ==
    \/ CallOnlineSetUserFromJson
    \/ CallOnlineSetFromJson
    \/ CallSessionFromJson
    \/ CallInfoFromJson
    \/ CallChatFromJson
    \/ CallCaptchaFromJson
    \/ CallEmoteFromJson
    \/ CallInviteFromJson
    \/ CallOnlineAddFromJson
    \/ CallOnlineRemoveFromJson
    \/ CallWarnFromJson

SpecDecode == InitDecode /\ [][NextDecode]_vars

\* ------------------------------------------------------ color strings
MaxColorLen == 7

\* Two hex digits and a sign.
ColorChars == {"F", "1", "+"}

RECURSIVE CharSeqs(_, _)
CharSeqs(chars, n) ==
    IF n = 0 THEN {<<>>}
    ELSE {Append(s, c) : s \in CharSeqs(chars, n - 1), c \in chars}

\* n times the character c, and the same with one character replaced.
Repeat(c, n) == [i \in 1 .. n |-> c]
OneReplaced(s, c) == {[s EXCEPT ![i] = c] : i \in 1 .. Len(s)}

\* The strings a color is parsed from: with and without '#', of every length
\* up to MaxColorLen, some with a lower-case digit, a letter that is no hex
\* digit or a two-byte character.
ColorInputs ==
    LET plain == UNION {CharSeqs(ColorChars, n) : n \in 0 .. MaxColorLen}
        hexes == {Repeat("F", n) : n \in 0 .. MaxColorLen}
        other == UNION {OneReplaced(s, c) : s \in hexes, c \in {"é", "a", "0", "G"}}
                   \cup {Repeat("0", 3), Repeat("G", 6)}
    IN plain \cup other
         \cup {<<"#">> \o s : s \in plain \cup other}
         \cup {<<"#", "#">> \o s : s \in hexes}

InitColor ==
    /\ UsersDefault
    /\ arg \in {[kind |-> "Color", v |-> s] : s \in ColorInputs}
    /\ ret = NoCall

\* Color::try_from
CallColorTryFrom ==
    /\ arg.kind = "Color"
    /\ ret = NoCall
    /\ ret' = Call("Color::try_from", ColorTryFrom(arg.v))
    /\ UNCHANGED <<id, ourself, users, arg, minted>>

NextColor == CallColorTryFrom

SpecColor == InitColor /\ [][NextColor]_vars

\* ------------------------------------------------------ tri-state values
MaxVal == 2

\* The values a MaybeExist of this section holds, and the tri-states over them.
Vals == 0 .. MaxVal
MaybeOf(vals) == {Unknown, Not} \cup {Has(v) : v \in vals}

\* What the "trip" key of a message can hold, and messages with and without it.
TripWires ==
    {Null, JStr(<<>>), JStr(<<"trip">>), JStr(<<"a", "b">>), JNum(0), JNum(1),
     JBool(FALSE), JBool(TRUE), JArr(<<>>), JArr(<<JStr(<<"trip">>)>>),
     JObj([trip |-> JStr(<<"trip">>)])}
TripMessages ==
    {JObj([nick |-> W("alice"), trip |-> x]) : x \in TripWires}
      \cup {JObj([nick |-> W("alice")]), JObj(<<>>)}

MaybeInputs ==
    {[kind |-> "Wire", json |-> j] : j \in TripMessages}
      \cup {[kind |-> "Option", opt |-> o] :
              o \in {None, Some(<<>>), Some(<<"trip">>), Some(<<"a", "b">>)}}
      \cup {[kind |-> "Map", m |-> m, f |-> f] : m \in MaybeOf(Vals), f \in [Vals -> Vals]}
      \cup {[kind |-> "AndThen", m |-> m, f |-> f] :
              m \in MaybeOf(Vals), f \in [Vals -> MaybeOf(Vals)]}

InitMaybe ==
    /\ UsersDefault
    /\ arg \in MaybeInputs
    /\ ret = NoCall

\* A MaybeExist method takes self by value: one call for each value.
Applied(kind, op, out) ==
    /\ arg.kind = kind
    /\ ret = NoCall
    /\ ret' = Call(op, out)
    /\ UNCHANGED <<id, ourself, users, arg, minted>>

CallTripFromJson == Applied("Wire", "Trip::from_json", TripFromJson(Index(arg.json, "trip")))
CallFromOptionUnknown == Applied("Option", "from_option_unknown", FromOptionUnknown(arg.opt))
CallMap == Applied("Map", "map", MaybeMap(arg.m, arg.f))
CallAndThen == Applied("AndThen", "and_then", MaybeAndThen(arg.m, arg.f))

NextMaybe ==
    \/ CallTripFromJson
    \/ CallFromOptionUnknown
    \/ CallMap
    \/ CallAndThen

SpecMaybe == InitMaybe /\ [][NextMaybe]_vars

\* ------------------------------------------------------ client commands
ServerApis == {"HackChatV2", "HackChatPreV2", "HackChatLegacy"}

\* value[key] = v on a JSON object: the key is added or its value replaced.
Put(o, k, v) == [x \in DOMAIN o \cup {k} |-> IF x = k THEN v ELSE o[x]]

\* Option<String>::into(): JSON null for None.
OptionInto(opt) == IF opt.some THEN JStr(opt.v) ELSE Null

\* client::Session::into_json
SessionIntoJson(self, server_api) ==
    LET value == Put(Put(<<>>, "cmd", W("session")), "isBot", JBool(self.is_bot))
    IN JObj(IF self.id.some THEN Put(value, "id", JStr(self.id.v)) ELSE value)

\* JoinIntoJson emitting the password field under every server api.
JoinIntoJson_PassAlways(self, server_api) ==
    LET value == Put(Put(<<>>, "cmd", W("join")), "channel", JStr(self.channel))
        legacy == self.password.some /\ server_api = "HackChatLegacy"
        withPass == IF self.password.some
                    THEN Put(value, "pass", JStr(self.password.v))
                    ELSE value
        nick == IF legacy THEN self.nick \o <<"#">> \o self.password.v ELSE self.nick
    IN JObj(Put(withPass, "nick", JStr(nick)))

\* client::Join::into_json
JoinIntoJson(self, server_api) ==
    LET value == Put(Put(<<>>, "cmd", W("join")), "channel", JStr(self.channel))
        legacy == self.password.some /\ server_api = "HackChatLegacy"
        withPass == IF self.password.some /\ ~legacy
                    THEN Put(value, "pass", JStr(self.password.v))
                    ELSE value
        nick == IF legacy THEN self.nick \o <<"#">> \o self.password.v ELSE self.nick
    IN JObj(Put(withPass, "nick", JStr(nick)))

\* ChatIntoJson emitting the channel when the command has one, whatever the api.
ChatIntoJson_ChannelIfSome(self, server_api) ==
    LET value == Put(Put(<<>>, "cmd", W("chat")), "text", JStr(self.text))
    IN JObj(IF self.channel.some
            THEN Put(value, "channel", JStr(self.channel.v))
            ELSE value)

\* client::Chat::into_json
ChatIntoJson(self, server_api) ==
    LET value == Put(Put(<<>>, "cmd", W("chat")), "text", JStr(self.text))
    IN JObj(IF server_api = "HackChatV2"
            THEN Put(value, "channel", OptionInto(self.channel))
            ELSE value)

\* FromJson::from_json of each server command
FromJson(op, json) ==
    CASE op = "OnlineSetUser::from_json" -> OnlineSetUserFromJson(json)
      [] op = "OnlineSet::from_json" -> OnlineSetFromJson(json)
      [] op = "Session::from_json" -> SessionFromJson(json)
      [] op = "Info::from_json" -> InfoFromJson(json)
      [] op = "Chat::from_json" -> ChatFromJson(json)
      [] op = "Captcha::from_json" -> CaptchaFromJson(json)
      [] op = "Emote::from_json" -> EmoteFromJson(json)
      [] op = "Invite::from_json" -> InviteFromJson(json)
      [] op = "OnlineAdd::from_json" -> OnlineAddFromJson(json)
      [] op = "OnlineRemove::from_json" -> OnlineRemoveFromJson(json)
      [] op = "Warn::from_json" -> WarnFromJson(json)

Decoders ==
    {"OnlineSetUser::from_json", "OnlineSet::from_json", "Session::from_json",
     "Info::from_json", "Chat::from_json", "Captcha::from_json", "Emote::from_json",
     "Invite::from_json", "OnlineAdd::from_json", "OnlineRemove::from_json",
     "Warn::from_json"}

\* The commands a client sends, and the api of its connection.
ClientSessions ==
    {[is_bot |-> b, id |-> i] : b \in BOOLEAN, i \in {None, Some(<<"sid">>)}}
ClientJoins ==
    {[nick |-> n, channel |-> c, password |-> p]
       : n \in Nicks \cup {<<"bob", "#", "pw">>}, c \in {<<"lounge">>, <<>>},
         p \in {None, Some(<<"pw">>), Some(<<>>)}}
ClientChats ==
    {[channel |-> c, text |-> t]
       : c \in {None, Some(<<"lounge">>), Some(<<>>)}, t \in {<<"hello">>, <<>>}}

ClientInputs ==
    {[kind |-> "client::Session", v |-> c, api |-> a] : c \in ClientSessions, a \in ServerApis}
      \cup {[kind |-> "client::Join", v |-> c, api |-> a] : c \in ClientJoins, a \in ServerApis}
      \cup {[kind |-> "client::Chat", v |-> c, api |-> a] : c \in ClientChats, a \in ServerApis}

InitClient ==
    /\ UsersDefault
    /\ arg \in ClientInputs
    /\ ret = NoCall

\* into_json takes the command by value: a command is encoded once.
Encoded(kind, op, out) ==
    /\ arg.kind = kind
    /\ ret = NoCall
    /\ ret' = Call(op, out)
    /\ UNCHANGED <<id, ourself, users, arg, minted>>

CallSessionIntoJson ==
    Encoded("client::Session", "client::Session::into_json", SessionIntoJson(arg.v, arg.api))
CallJoinIntoJson ==
    Encoded("client::Join", "client::Join::into_json", JoinIntoJson(arg.v, arg.api))
CallChatIntoJson ==
    Encoded("client::Chat", "client::Chat::into_json", ChatIntoJson(arg.v, arg.api))

IntoJsonOps ==
    {"client::Session::into_json", "client::Join::into_json", "client::Chat::into_json"}

\* The JSON a command was encoded to is handed to a decoder, under the same api.
DecodeEncoded ==
    \E op \in Decoders :
        /\ ret.op \in IntoJsonOps
        /\ ret' = Call(op, FromJson(op, ret.out))
        /\ UNCHANGED <<id, ourself, users, arg, minted>>

NextClient ==
    \/ CallSessionIntoJson
    \/ CallJoinIntoJson
    \/ CallChatIntoJson
    \/ DecodeEncoded

SpecClient == InitClient /\ [][NextClient]_vars

\* ------------------------------------------------------------ claims
IsPrefix(p, s) == Len(p) <= Len(s) /\ SubSeq(s, 1, Len(p)) = p

\* The keys of the entries that are online under the nickname.
OnlineAs(nick) == {k \in DOMAIN users : users[k].online /\ users[k].nick = nick}

\* Every space-separated token of a text.
Tokens(text) == SplitN(Len(text) + 1, text)

\* The invite grammar <name1> invited <name2> to ?<channel>, token by token:
\* the error of the first position that fails, "none" when all five pass.
GrammarError(text) ==
    LET t == Tokens(text)
    IN IF Len(t) < 2 \/ t[2] # <<"invited">> THEN "NoInvited"
       ELSE IF Len(t) < 3 THEN "NoTo"
       ELSE IF Len(t) < 4 \/ t[4] # <<"to">> THEN "NoToJoiner"
       ELSE IF Len(t) < 5 THEN "NoChannel"
       ELSE IF ~IsPrefix(<<QM>>, t[5]) THEN "InvalidChannel"
       ELSE "none"

AliceInvitedYou == <<"alice", SP, "invited", SP, "you", SP, "to", SP, QM, "general">>
AliceInvitedBob == <<"alice", SP, "invited", SP, "bob", SP, "to", SP, "general">>

\* C1: Invite::from_info on "alice invited you to ?general", with the self-id
\* set and an online "alice", returns Ok with from = alice's id, to = the
\* self-id, invite_channel = "general" and time = the Info's time.
C1_InviteFromInfoOk ==
    (/\ ret.op = "Invite::from_info"
     /\ arg.v.text = AliceInvitedYou
     /\ ourself.some
     /\ OnlineAs(<<"alice">>) # {})
    => /\ ret.out.ok
       /\ ret.out.v.from \in OnlineAs(<<"alice">>)
       /\ ret.out.v.to = ourself.v
       /\ ret.out.v.invite_channel = <<"general">>
       /\ ret.out.v.time = arg.v.time

\* C2: Invite::from_info on "alice invited bob to general" returns
\* InvalidChannel, whatever the registry holds.
C2_InvalidChannel ==
    (ret.op = "Invite::from_info" /\ arg.v.text = AliceInvitedBob)
    => ret.out = Err([kind |-> "InvalidChannel"])

\* C3: Invite::from_info reports the grammar failure of the first token
\* position that fails: NoInvited, NoTo, NoToJoiner, NoChannel, InvalidChannel
\* (stated for the texts whose first token is a name, so NoFrom is left aside).
C3_GrammarErrors ==
    (/\ ret.op = "Invite::from_info"
     /\ Tokens(arg.v.text)[1] # <<>>
     /\ GrammarError(arg.v.text) # "none")
    => ret.out = Err([kind |-> GrammarError(arg.v.text)])

\* C4: when the text passes the invite grammar, an invited name "you" makes
\* to the self-id (UnknownSelf if unset) and from the online entry named by
\* the first token (UnknownNick if none); any other invited name makes from
\* the self-id and to the online entry of that name.
C4_InviteRoles ==
    (ret.op = "Invite::from_info" /\ GrammarError(arg.v.text) = "none")
    => LET t == Tokens(arg.v.text)
           name == IF t[3] = <<"you">> THEN t[1] ELSE t[3]
       IN \/ ~ourself.some /\ ret.out = Err([kind |-> "UnknownSelf"])
          \/ OnlineAs(name) = {} /\ ret.out = Err([kind |-> "UnknownNick"])
          \/ /\ ourself.some
             /\ ret.out.ok
             /\ IF t[3] = <<"you">>
                THEN ret.out.v.to = ourself.v /\ ret.out.v.from \in OnlineAs(name)
                ELSE ret.out.v.from = ourself.v /\ ret.out.v.to \in OnlineAs(name)

\* C5: Emote::from_info on "@<name>" or "@<name> <rest>", <name> an online
\* nickname, returns Ok with the id of an online entry of that name, the
\* Info's time, and as text everything after the first space (empty when the
\* text has no space).
C5_EmoteFromInfoOk ==
    ret.op = "Emote::from_info"
    => \A n \in {users[k].nick : k \in DOMAIN users} :
         LET head == <<AT>> \o n
             text == arg.v.text
         IN (/\ OnlineAs(n) # {}
             /\ Find(n, SP, 1) = 0
             /\ IsPrefix(head, text)
             /\ (Len(text) = Len(head) \/ text[Len(head) + 1] = SP))
            => /\ ret.out.ok
               /\ ret.out.v.user_id \in OnlineAs(n)
               /\ ret.out.v.time = arg.v.time
               /\ ret.out.v.text = SubSeq(text, Len(head) + 2, Len(text))

C5_Witness ==
    /\ ret.op = "Emote::from_info"
    /\ arg.v.text = <<AT, "bob", SP, "waves", SP, "hello">>
    /\ ret.out.ok
    /\ ret.out.v.text = <<"waves", SP, "hello">>
    /\ users[ret.out.v.user_id].nick = <<"bob">>

\* C6: Emote::from_info fails with NoAt when the first token does not start
\* with '@', with NoUser when the name after '@' is empty, and with
\* NoUserFound when the non-empty name is not an online nickname.
C6_EmoteFromInfoErrors ==
    ret.op = "Emote::from_info"
    => LET first == Tokens(arg.v.text)[1]
       IN /\ ~IsPrefix(<<AT>>, first) => ret.out = Err([kind |-> "NoAt"])
          /\ first = <<AT>> => ret.out = Err([kind |-> "NoUser"])
          /\ (IsPrefix(<<AT>>, first) /\ Len(first) > 1 /\ OnlineAs(Tail(first)) = {})
             => ret.out = Err([kind |-> "NoUserFound"])

\* C7: Emote::from_emote returns Server(user_id) whenever the Emote carries a
\* user_id, whether or not it is a key of the registry; otherwise the id of an
\* online entry with the Emote's nickname; otherwise NoUserFound.  Text and
\* time are copied.
C7_EmoteFromEmote ==
    ret.op = "Emote::from_emote"
    => LET e == arg.v
       IN IF e.user_id.some
          THEN ret.out = Ok([text |-> e.text, user_id |-> Server(e.user_id.v),
                             time |-> e.time])
          ELSE IF e.nick.some /\ OnlineAs(e.nick.v) # {}
          THEN /\ ret.out.ok
               /\ ret.out.v.user_id \in OnlineAs(e.nick.v)
               /\ ret.out.v.text = e.text
               /\ ret.out.v.time = e.time
          ELSE ret.out = Err([kind |-> "NoUserFound"])

C7_Witness ==
    /\ ret.op = "Emote::from_emote"
    /\ arg.v.user_id.some
    /\ arg.v.nick.some
    /\ OnlineAs(arg.v.nick.v) # {}
    /\ Server(arg.v.user_id.v) \notin DOMAIN users
    /\ ret.out.ok
    /\ ret.out.v.user_id = Server(arg.v.user_id.v)

\* Whether a field of a message holds a string.
HasString(json, key) ==
    /\ json.t = "object"
    /\ key \in DOMAIN json.obj
    /\ json.obj[key].t = "string"

\* Whether a field holds a non-negative number (below 2^32 for the u32 fields).
HasNumber(json, key) ==
    /\ json.t = "object"
    /\ key \in DOMAIN json.obj
    /\ json.obj[key].t = "number"
    /\ json.obj[key].num >= 0
    /\ IF key \in {"users", "chans"} THEN json.obj[key].hi = 0 ELSE json.obj[key].hi >= 0

\* C8: OnlineSetUser decode of an object with string "channel" and "nick" but
\* no string "hash" fails with a field error that names "hash".
C8_MissingHashNamed ==
    (/\ ret.op = "OnlineSetUser::from_json"
     /\ HasString(arg.v, "channel")
     /\ HasString(arg.v, "nick")
     /\ ~HasString(arg.v, "hash"))
    => /\ ~ret.out.ok
       /\ ret.out.e.kind \in {"InvalidField", "InvalidCommandField"}
       /\ ret.out.e.name = "hash"

\* The fixed tag of every decoder that checks one.
TagOf ==
    [op \in {"OnlineSet::from_json", "Session::from_json", "Info::from_json",
             "Chat::from_json", "Captcha::from_json", "Emote::from_json",
             "Invite::from_json", "OnlineAdd::from_json", "OnlineRemove::from_json"} |->
        CASE op = "OnlineSet::from_json" -> "onlineSet"
          [] op = "Session::from_json" -> "session"
          [] op = "Info::from_json" -> "info"
          [] op = "Chat::from_json" -> "chat"
          [] op = "Captcha::from_json" -> "captcha"
          [] op = "Emote::from_json" -> "emote"
          [] op = "Invite::from_json" -> "invite"
          [] op = "OnlineAdd::from_json" -> "onlineAdd"
          [] op = "OnlineRemove::from_json" -> "onlineRemove"]

\* The fields the codec table lists as required, in decoding order.
RequiredOf ==
    [op \in DOMAIN TagOf \cup {"Warn::from_json"} |->
        CASE op = "OnlineSet::from_json" -> <<"time">>
          [] op = "Session::from_json" -> <<"users", "chans", "sessionID", "time">>
          [] op = "Info::from_json" -> <<"text", "time">>
          [] op = "Chat::from_json" -> <<"nick", "text", "time">>
          [] op = "Captcha::from_json" -> <<"text">>
          [] op = "Emote::from_json" -> <<"text", "time">>
          [] op = "Invite::from_json" -> <<"from", "to", "inviteChannel", "time">>
          [] op = "OnlineAdd::from_json" -> <<"nick", "time">>
          [] op = "OnlineRemove::from_json" -> <<"nick", "time">>
          [] op = "Warn::from_json" -> <<"text", "time">>]

FieldGood(json, key) ==
    IF key \in {"users", "chans", "from", "to", "time"}
    THEN HasNumber(json, key)
    ELSE HasString(json, key)

\* The first required field of the decoder that the message lacks, "" if none.
RECURSIVE FirstBad(_, _)
FirstBad(json, fields) ==
    IF fields = <<>> THEN ""
    ELSE IF ~FieldGood(json, fields[1]) THEN fields[1]
    ELSE FirstBad(json, Tail(fields))

TagGood(op, json) ==
    op \in DOMAIN TagOf => HasString(json, "cmd") /\ json.obj["cmd"].str = <<TagOf[op]>>

\* Whether the "users" field is an array with an element that OnlineSetUser
\* decoding rejects.
UsersElementFails(json) ==
    /\ json.t = "object"
    /\ "users" \in DOMAIN json.obj
    /\ json.obj["users"].t = "array"
    /\ \E i \in 1 .. Len(json.obj["users"].arr) :
         LET u == json.obj["users"].arr[i]
         IN ~(HasString(u, "channel") /\ HasString(u, "nick") /\ HasString(u, "hash"))

\* C9: with a correct tag, a decoder whose message lacks a required field
\* returns InvalidField naming the first such field in decoding order (an
\* OnlineSet whose users array has a failing element, which the codec table
\* lets propagate, is left aside).
C9_FirstMissingField ==
    (/\ ret.op \in DOMAIN RequiredOf
     /\ TagGood(ret.op, arg.v)
     /\ FirstBad(arg.v, RequiredOf[ret.op]) # ""
     /\ ~(ret.op = "OnlineSet::from_json" /\ UsersElementFails(arg.v)))
    => ret.out = Err(InvalidField(FirstBad(arg.v, RequiredOf[ret.op])))

\* C10: a decoder that checks a tag returns InvalidCommandField(its tag)
\* whenever "cmd" is absent, no string, or another string, whatever the other
\* fields hold.
C10_TagFirst ==
    (ret.op \in DOMAIN TagOf /\ ~TagGood(ret.op, arg.v))
    => ret.out = Err(InvalidCommandField(TagOf[ret.op]))

C10_Witness ==
    /\ ret.op = "OnlineAdd::from_json"
    /\ arg.v.t = "object"
    /\ "cmd" \notin DOMAIN arg.v.obj
    /\ "nick" \notin DOMAIN arg.v.obj
    /\ ret.out = Err(InvalidCommandField("onlineAdd"))

\* C11: the Warn decoder checks no tag: it never returns InvalidCommandField,
\* and an object with a string "text" and a "time" that is a timestamp number
\* decodes Ok with that text and time, whatever "cmd" holds or if it is missing.
C11_WarnNoTagCheck ==
    ret.op = "Warn::from_json"
    => /\ ~ret.out.ok => ret.out.e.kind # "InvalidCommandField"
       /\ (HasString(arg.v, "text") /\ HasNumber(arg.v, "time"))
          => /\ ret.out.ok
             /\ ret.out.v.text = arg.v.obj["text"].str
             /\ ret.out.v.time = arg.v.obj["time"]

C11_Witness ==
    /\ ret.op = "Warn::from_json"
    /\ HasString(arg.v, "text")
    /\ HasNumber(arg.v, "time")
    /\ ~(HasString(arg.v, "cmd") /\ arg.v.obj["cmd"].str = <<"warn">>)
    /\ ret.out.ok

\* The required fields of every decoder, the nested OnlineSetUser included.
RequiredAll ==
    [op \in DOMAIN RequiredOf \cup {"OnlineSetUser::from_json"} |->
        IF op = "OnlineSetUser::from_json" THEN <<"channel", "nick", "hash">>
        ELSE RequiredOf[op]]

\* C12: with a correct tag and valid required fields a decoder returns Ok,
\* whatever its optional fields hold or lack (an OnlineSet whose users array
\* has a failing element is left aside, and so is a call that does not
\* return); in particular a Session whose "public" object holds a count that
\* is no integer decodes Ok.
C12_OptionalNeverFails ==
    (/\ ret.op \in DOMAIN RequiredAll
     /\ TagGood(ret.op, arg.v)
     /\ FirstBad(arg.v, RequiredAll[ret.op]) = ""
     /\ ~(ret.op = "OnlineSet::from_json" /\ UsersElementFails(arg.v))
     /\ ret.out # Panic)
    => ret.out.ok

\* A "color" that is no parseable hex color; a "uType" that is none of the
\* three user types.
BadColor(json) ==
    /\ json.t = "object"
    /\ "color" \in DOMAIN json.obj
    /\ ~(HasString(json, "color") /\ ColorTryFrom(json.obj["color"].str).ok)

BadUserType(json) ==
    /\ json.t = "object"
    /\ "uType" \in DOMAIN json.obj
    /\ ~(HasString(json, "uType") /\ UserTypeTryFrom(json.obj["uType"].str).ok)

\* C13: in the OnlineSetUser, OnlineAdd and Chat decoders a malformed "color"
\* or "uType" decodes as the same message without that field does: the field
\* is None and the outcome and every other decoded field are unchanged.
C13_MalformedSwallowed ==
    ret.op \in {"OnlineSetUser::from_json", "OnlineAdd::from_json", "Chat::from_json"}
    => /\ BadColor(arg.v)
          => ret.out = FromJson(ret.op, JObj(Without(arg.v.obj, "color")))
       /\ BadUserType(arg.v)
          => ret.out = FromJson(ret.op, JObj(Without(arg.v.obj, "uType")))

\* C14: no decoder panics on a malformed message: every call returns Ok or a
\* typed error, whatever string the "color" field holds.
C14_NoPanic ==
    ret.op # "none" => ret.out # Panic

\* C15: an OnlineSet that decodes Ok has for channel the string of the wire
\* field "channel" when that field holds one, and None when the field is
\* absent, whatever "text" holds.
C15_OnlineSetChannel ==
    (ret.op = "OnlineSet::from_json" /\ ret.out.ok)
    => /\ HasString(arg.v, "channel") => ret.out.v.channel = Some(arg.v.obj["channel"].str)
       /\ "channel" \notin DOMAIN arg.v.obj => ret.out.v.channel = None

\* The keys of an encoded JSON object.
KeysOf(json) == DOMAIN json.obj

\* C16: the JSON of a Join has "cmd" = "join" and "channel" = the channel;
\* with a password, V2 and PreV2 emit "nick" unchanged and "pass" = the
\* password, Legacy emits "nick" = nickname # password and no "pass"; without
\* a password every api emits "nick" unchanged and no "pass".
C16_JoinEncode ==
    ret.op = "client::Join::into_json"
    => /\ ret.out.t = "object"
       /\ ret.out.obj["cmd"] = JStr(<<"join">>)
       /\ ret.out.obj["channel"] = JStr(arg.v.channel)
       /\ (arg.v.password.some /\ arg.api \in {"HackChatV2", "HackChatPreV2"})
          => /\ KeysOf(ret.out) = {"cmd", "channel", "nick", "pass"}
             /\ ret.out.obj["nick"] = JStr(arg.v.nick)
             /\ ret.out.obj["pass"] = JStr(arg.v.password.v)
       /\ (arg.v.password.some /\ arg.api = "HackChatLegacy")
          => /\ KeysOf(ret.out) = {"cmd", "channel", "nick"}
             /\ ret.out.obj["nick"] = JStr(arg.v.nick \o <<"#">> \o arg.v.password.v)
       /\ ~arg.v.password.some
          => /\ KeysOf(ret.out) = {"cmd", "channel", "nick"}
             /\ ret.out.obj["nick"] = JStr(arg.v.nick)

C16_Witness ==
    /\ ret.op = "client::Join::into_json"
    /\ arg.api = "HackChatLegacy"
    /\ arg.v.password = Some(<<"pw">>)
    /\ arg.v.nick = <<"alice">>
    /\ ret.out.obj["nick"] = JStr(<<"alice", "#", "pw">>)
    /\ "pass" \notin DOMAIN ret.out.obj

\* C17: the JSON of a client Chat has the key "channel" only under V2: under
\* PreV2 and Legacy its keys are exactly "cmd" and "text" whatever the
\* command's channel; under V2 the key is present and carries the channel, or
\* JSON null when the command has none.
C17_ChatEncode ==
    ret.op = "client::Chat::into_json"
    => /\ ret.out.t = "object"
       /\ ret.out.obj["cmd"] = JStr(<<"chat">>)
       /\ ret.out.obj["text"] = JStr(arg.v.text)
       /\ arg.api # "HackChatV2" => KeysOf(ret.out) = {"cmd", "text"}
       /\ arg.api = "HackChatV2"
          => /\ KeysOf(ret.out) = {"cmd", "text", "channel"}
             /\ arg.v.channel.some => ret.out.obj["channel"] = JStr(arg.v.channel.v)
             /\ ~arg.v.channel.some => ret.out.obj["channel"] = Null

C17_Witness ==
    /\ ret.op = "client::Chat::into_json"
    /\ arg.api = "HackChatV2"
    /\ arg.v.channel = None
    /\ "channel" \in DOMAIN ret.out.obj
    /\ ret.out.obj["channel"] = Null

\* C18: decoding, under the same api, the JSON a client command was encoded
\* to gives back every field the api transmits: the decoder of the command's
\* tag returns Ok, a Session with its id, a Chat with its text and, under V2,
\* its channel.
C18_RoundTrip ==
    /\ (arg.kind = "client::Session" /\ ret.op = "Session::from_json")
       => /\ ret.out.ok
          /\ arg.v.id.some => ret.out.v.session_id = arg.v.id.v
    /\ (arg.kind = "client::Chat" /\ ret.op = "Chat::from_json")
       => /\ ret.out.ok
          /\ ret.out.v.text = arg.v.text
          /\ arg.api = "HackChatV2" => ret.out.v.channel = arg.v.channel

\* C19: whatever calls come between, clear included, the k-th call of
\* generate_id returns Generated(k - 1): the ids returned are strictly
\* increasing and pairwise distinct, and none is returned twice.
C19_GeneratedIds ==
    /\ \A k \in 1 .. Len(minted) : minted[k] = Generated(k - 1)
    /\ \A j, k \in 1 .. Len(minted) : j < k => minted[j].n < minted[k].n
    /\ ret.op = "generate_id" => ret.out = minted[Len(minted)]

\* The second id is generated on an empty registry, as after clear.
C19_Witness ==
    /\ ret = Call("generate_id", Generated(1))
    /\ minted = <<Generated(0), Generated(1)>>
    /\ users = <<>>

\* The id of the other tag with the same number.
OtherTag(k) == IF k.tag = "Server" THEN Generated(k.n) ELSE Server(k.n)

\* C20: Server(n) and Generated(n) are distinct keys: a step that writes the
\* registry (other than clear) writes under one key k, adds k if it was no
\* key, which makes one entry more, and leaves every other entry, the one
\* under the other tag included, as it was; writing under a key that exists
\* keeps the number of entries; and get hands out the record of the id asked
\* for, never the record kept under the other tag.
C20_DistinctKeys ==
    /\ [](ret.op = "get"
          => /\ ret.out = IF arg.v \in DOMAIN users THEN Some(users[arg.v]) ELSE None
             /\ (/\ ret.out.some
                 /\ OtherTag(arg.v) \in DOMAIN users
                 /\ users[OtherTag(arg.v)] # users[arg.v])
                => ret.out.v # users[OtherTag(arg.v)])
    /\ [][(users' # users /\ users' # <<>>)
          => \E k \in DOMAIN users' :
                /\ DOMAIN users' = DOMAIN users \cup {k}
                /\ \A j \in DOMAIN users \ {k} : users'[j] = users[j]
                /\ k \in DOMAIN users
                   => Cardinality(DOMAIN users') = Cardinality(DOMAIN users)
                /\ k \notin DOMAIN users
                   => Cardinality(DOMAIN users') = Cardinality(DOMAIN users) + 1]_vars

C20_Witness ==
    /\ Server(0) \in DOMAIN users
    /\ Generated(0) \in DOMAIN users
    /\ Cardinality(DOMAIN users) = 2
    /\ users[Server(0)] # users[Generated(0)]
    /\ arg = [kind |-> "Id", v |-> Server(0)]
    /\ ret = Call("get", Some(users[Server(0)]))

\* C21: find_online_nick(name) returns an entry only if it is in the map, is
\* online and has the nickname; it returns one entry, also when several online
\* entries share the nickname; it returns None exactly when no online entry
\* has the nickname; it never fails.
C21_FindOnlineNick ==
    ret.op = "find_online_nick"
    => /\ ret.out \in {None} \cup {Some(k) : k \in DOMAIN users}
       /\ ret.out.some
          => /\ users[ret.out.v].online
             /\ users[ret.out.v].nick = arg.v
       /\ ~ret.out.some <=> OnlineAs(arg.v) = {}

\* Two online entries share the nickname and one of the two is returned.
C21_Witness ==
    /\ ret.op = "find_online_nick"
    /\ Cardinality(OnlineAs(arg.v)) = 2
    /\ ret.out.some
    /\ ret.out.v \in OnlineAs(arg.v)

\* C22: acquire_server_identifier(id, tag): with the tag UserId it returns n
\* exactly when id is Server(n), whether or not id is a key; with Nickname it
\* returns the stored nickname exactly when id is a key; with Trip it returns
\* the trip exactly when id is a key whose trip is Has, and None when the entry
\* is missing or its trip is Unknown or Not.
C22_AcquireServerIdentifier ==
    ret.op = "acquire_server_identifier"
    => /\ arg.tag = "UserId"
          => /\ arg.v.tag = "Server" => ret.out = Some([kind |-> "UserId", id |-> arg.v.n])
             /\ arg.v.tag = "Generated" => ret.out = None
       /\ arg.tag = "Nickname"
          => /\ arg.v \in DOMAIN users
                => ret.out = Some([kind |-> "Nickname", str |-> users[arg.v].nick])
             /\ arg.v \notin DOMAIN users => ret.out = None
       /\ arg.tag = "Trip"
          => /\ (arg.v \in DOMAIN users /\ users[arg.v].trip.me = "Has")
                => ret.out = Some([kind |-> "Trip", str |-> users[arg.v].trip.v])
             /\ (arg.v \notin DOMAIN users \/ users[arg.v].trip.me \in {"Unknown", "Not"})
                => ret.out = None

\* The server id of an id that is no key, in a registry that holds an entry.
C22_Witness ==
    /\ ret.op = "acquire_server_identifier"
    /\ arg.tag = "UserId"
    /\ arg.v = Server(1)
    /\ arg.v \notin DOMAIN users
    /\ Generated(0) \in DOMAIN users
    /\ users[Generated(0)].trip = Has(<<"trip">>)
    /\ ret.out = Some([kind |-> "UserId", id |-> 1])

\* C23: the self-identifier is None in a fresh registry; a step that changes it
\* is the caller's assignment, which returns nothing and leaves the counter
\* and the map alone, so no registry method changes it; ourself() returns the
\* value it holds, the last one assigned; entries leave the map only all at
\* once, by clear, which keeps the counter and the self-identifier.
C23_SelfAndClear ==
    /\ ourself = None
    /\ [](ret.op = "ourself" => ret.out = ourself)
    /\ [][/\ ourself' # ourself
             => /\ ret' = NoCall
                /\ UNCHANGED <<id, users, minted>>
          /\ (\E k \in DOMAIN users : k \notin DOMAIN users')
             => /\ users' = <<>>
                /\ UNCHANGED <<id, ourself, minted>>]_vars

\* The self-identifier, set before entries came and went, is read back.
C23_Witness ==
    /\ ret = Call("ourself", Some(Server(1)))
    /\ ourself = Some(Server(1))
    /\ users = <<>>
    /\ id = 1

\* A color string without its optional leading '#', and whether it is made of
\* hex digits only.
AfterHash(s) == IF s # <<>> /\ s[1] = "#" THEN Tail(s) ELSE s
IsHex(s) == \A i \in 1 .. Len(s) : ToDigit(s[i]).some
Digit(s, i) == ToDigit(s[i]).v

\* C24: after an optional leading '#', six hex characters parse to the three
\* two-digit pairs, three hex characters parse to the three single digits, and
\* a string of any other length fails with a length error.
C24_ColorByLength ==
    ret.op = "Color::try_from"
    => LET s == AfterHash(arg.v)
       IN /\ (Len(s) = 6 /\ IsHex(s))
             => ret.out = Ok([r |-> 16 * Digit(s, 1) + Digit(s, 2),
                              g |-> 16 * Digit(s, 3) + Digit(s, 4),
                              b |-> 16 * Digit(s, 5) + Digit(s, 6)])
          /\ (Len(s) = 3 /\ IsHex(s))
             => ret.out = Ok([r |-> Digit(s, 1), g |-> Digit(s, 2), b |-> Digit(s, 3)])
          /\ Len(s) \notin {3, 6}
             => /\ ~ret.out.ok
                /\ ret.out.e.kind \in {"UnexpectedEOF", "TooManyCharacters"}

\* C25: a string of three or six characters (its leading '#' stripped) with a
\* character that is no hex digit fails with ParseError and is never a color.
C25_NonHexFails ==
    ret.op = "Color::try_from"
    => LET s == TrimStartHash(arg.v)
       IN (Len(s) \in {3, 6} /\ ~IsHex(s))
          => ret.out = Err([kind |-> "ParseError"])

\* C26: a trip is Has(s) exactly for a non-empty string s on the wire, Not
\* exactly for the empty string and Unknown for an absent key or a value that
\* is no string; from_option_unknown gives Has(v) for Some(v) and Unknown for
\* None, and never Not.
C26_TripStates ==
    /\ ret.op = "Trip::from_json"
       => LET str == HasString(arg.json, "trip")
              empty == str /\ arg.json.obj["trip"].str = <<>>
          IN /\ (str /\ ~empty) => ret.out = Has(arg.json.obj["trip"].str)
             /\ empty => ret.out = Not
             /\ ~str => ret.out = Unknown
    /\ ret.op = "from_option_unknown"
       => /\ arg.opt.some => ret.out = Has(arg.opt.v)
          /\ ~arg.opt.some => ret.out = Unknown
          /\ ret.out # Not

\* An empty trip string was decoded.
C26_Witness ==
    /\ ret.op = "Trip::from_json"
    /\ HasString(arg.json, "trip")
    /\ arg.json.obj["trip"].str = <<>>
    /\ ret.out = Not

\* C27: map and and_then leave Unknown and Not as they are; on Has(v), map
\* gives Has(f(v)) and and_then gives f(v).
C27_MapAndThen ==
    /\ ret.op = "map"
       => /\ arg.m = Unknown => ret.out = Unknown
          /\ arg.m = Not => ret.out = Not
          /\ arg.m.me = "Has" => ret.out = Has(arg.f[arg.m.v])
    /\ ret.op = "and_then"
       => /\ arg.m = Unknown => ret.out = Unknown
          /\ arg.m = Not => ret.out = Not
          /\ arg.m.me = "Has" => ret.out = arg.f[arg.m.v]
    /\ ret.op \in {"map", "and_then"}
       => /\ arg.m.me # "Has" => ret.out.me = arg.m.me
          /\ arg.m.me # ret.out.me => arg.m.me = "Has" /\ ret.op = "and_then"

\* and_then was called on Not with a closure that answers Has for every value.
C27_Witness ==
    /\ ret.op = "and_then"
    /\ arg.m = Not
    /\ \A v \in Vals : arg.f[v].me = "Has"
    /\ ret.out = Not

\* Whether a field holds a boolean.
HasBoolean(json, key) ==
    /\ json.t = "object"
    /\ key \in DOMAIN json.obj
    /\ json.obj[key].t = "boolean"

\* C28: a Chat with the right tag and a valid nick, text and time decodes Ok;
\* is_mod and is_admin are the wire booleans, and false when the key is absent
\* or holds no boolean; user_type, user_id, channel and level are None when
\* their keys are absent.
C28_ChatDefaults ==
    (/\ ret.op = "Chat::from_json"
     /\ TagGood(ret.op, arg.v)
     /\ FirstBad(arg.v, RequiredOf[ret.op]) = "")
    => /\ ret.out.ok
       /\ ret.out.v.is_mod = (HasBoolean(arg.v, "mod") /\ arg.v.obj["mod"].bool)
       /\ ret.out.v.is_admin = (HasBoolean(arg.v, "admin") /\ arg.v.obj["admin"].bool)
       /\ "uType" \notin KeysOf(arg.v) => ret.out.v.user_type = None
       /\ "userid" \notin KeysOf(arg.v) => ret.out.v.user_id = None
       /\ "channel" \notin KeysOf(arg.v) => ret.out.v.channel = None
       /\ "level" \notin KeysOf(arg.v) => ret.out.v.level = None

\* A Chat whose "mod" is a number and whose "admin" is the boolean false
\* was decoded.
C28_Witness ==
    /\ ret.op = "Chat::from_json"
    /\ TagGood(ret.op, arg.v)
    /\ "mod" \in KeysOf(arg.v)
    /\ arg.v.obj["mod"].t = "number"
    /\ HasBoolean(arg.v, "admin")
    /\ ~arg.v.obj["admin"].bool
    /\ ret.out.ok
    /\ ~ret.out.v.is_mod
    /\ ~ret.out.v.is_admin

\* Whether a field holds an array, and the places of the "users" array whose
\* element OnlineSetUser decoding rejects.
HasArray(json, key) ==
    /\ json.t = "object"
    /\ key \in DOMAIN json.obj
    /\ json.obj[key].t = "array"
FailingUsers(json) ==
    {i \in 1 .. Len(json.obj["users"].arr) :
        ~OnlineSetUserFromJson(json.obj["users"].arr[i]).ok}
Least(S) == CHOOSE i \in S : \A j \in S : i <= j

\* C29: an OnlineSet with the right tag whose "users" array has an element
\* that OnlineSetUser decoding rejects fails with the error of the first
\* such element, whatever "time" holds; a decoded OnlineSet has users = None
\* when "users" is missing or no array, nicks = None when the "nicks" array
\* holds a value that is no string, and the nicks in wire order when all are
\* strings.
C29_OnlineSetLists ==
    (ret.op = "OnlineSet::from_json" /\ TagGood(ret.op, arg.v))
    => /\ (HasArray(arg.v, "users") /\ FailingUsers(arg.v) # {})
          => ret.out = OnlineSetUserFromJson(arg.v.obj["users"].arr[Least(FailingUsers(arg.v))])
       /\ ret.out.ok
          => /\ ~HasArray(arg.v, "users") => ret.out.v.users = None
             /\ HasArray(arg.v, "nicks")
                => LET nicks == arg.v.obj["nicks"].arr
                   IN IF \E i \in 1 .. Len(nicks) : nicks[i].t # "string"
                      THEN ret.out.v.nicks = None
                      ELSE ret.out.v.nicks = Some([i \in 1 .. Len(nicks) |-> nicks[i].str])

\* An OnlineSet whose second user lacks its hash, whose third lacks its nick
\* and whose time is no number was decoded.
C29_Witness ==
    /\ ret.op = "OnlineSet::from_json"
    /\ TagGood(ret.op, arg.v)
    /\ HasArray(arg.v, "users")
    /\ FailingUsers(arg.v) = {2, 3}
    /\ ~HasNumber(arg.v, "time")
    /\ ret.out = OnlineSetUserFromJson(arg.v.obj["users"].arr[2])
    /\ ret.out # OnlineSetUserFromJson(arg.v.obj["users"].arr[3])

UnknownErrors == {Err([kind |-> "UnknownSelf"]), Err([kind |-> "UnknownNick"])}

\* C30: Invite::from_info answers a text that breaks the invite grammar as it
\* would with an empty registry, answers UnknownSelf or UnknownNick only for
\* a text that passes the grammar, and, with the self-id unset and the named
\* user not online, answers UnknownSelf when the invited name is "you" and
\* UnknownNick otherwise.
C30_GrammarBeforeRegistry ==
    ret.op = "Invite::from_info"
    => LET t == Tokens(arg.v.text)
           grammatical == GrammarError(arg.v.text) = "none"
       IN /\ ~grammatical => ret.out \in InviteFromInfo(<<>>, None, arg.v)
          /\ ret.out \in UnknownErrors => grammatical
          /\ (/\ grammatical
              /\ ~ourself.some
              /\ OnlineAs(IF t[3] = <<"you">> THEN t[1] ELSE t[3]) = {})
             => ret.out = Err([kind |-> IF t[3] = <<"you">> THEN "UnknownSelf"
                                        ELSE "UnknownNick"])

====
